---- MODULE Spec2Model ----
(***************************************************************************)
(* ayologger: the Template Resolver (Templates.ts) and the Logger Core     *)
(* (Logger.ts).  Strings are TLA+ strings; JavaScript's absent values are  *)
(* the two markers Undefined and Null, which are no text the program is    *)
(* ever given.  An object is a function whose DOMAIN is its set of own     *)
(* keys, so that a missing key and a present one differ as in JavaScript.  *)
(***************************************************************************)
EXTENDS Integers, Sequences, FiniteSets, TLC

VARIABLES
    tokens,     \* resolver input: the pieces the template text is built from
    text,       \* resolver input: the template text
    params,     \* resolver input: the TemplateParams object
    resolved,   \* resolver output
    rpc,        \* resolver position: "start" | "done"
    loggers,    \* Logger instance -> its private `options` (constructed instances only)
    given,      \* Logger instance -> the argument its constructor was given
    clock,      \* the second moment() reads next
    sink,       \* the lines console.log has been given, in order
    entries,    \* the entry-point calls made so far, in order
    locals      \* the locals of the latest universalLog call

vars ==
    <<tokens, text, params, resolved, rpc, loggers, given, clock, sink, entries, locals>>

resolverVars == <<tokens, text, params, resolved, rpc>>
loggerVars == <<loggers, given, clock, sink, entries, locals>>

(***************************************************************************)
(* Bounds                                                                  *)
(***************************************************************************)
MaxTokens == 3
MaxCalls == 2

(***************************************************************************)
(* JavaScript values and strings                                           *)
(***************************************************************************)
Undefined == "<undefined>"
Null == "<null>"

\* ToBoolean of a string-or-absent value: undefined, null and "" are falsy.
Truthy(v) == v \notin {Undefined, Null, ""}

\* a || b
OrElse(a, b) == IF Truthy(a) THEN a ELSE b

\* An object-valued lookup whose result is used through `?.`, `|| {}`, a
\* `= {}` default parameter or a spread: there undefined and {} act alike,
\* so a missing key reads as the empty object.
EmptyObject == <<>>
GetObject(obj, key) == IF key \in DOMAIN obj THEN obj[key] ELSE EmptyObject

\* obj?.[key] for a string-valued field: undefined when the key is missing.
Get(obj, key) == IF key \in DOMAIN obj THEN obj[key] ELSE Undefined

\* { ...a, ...b }: the own keys of both, b's values winning.
Spread(a, b) ==
    [k \in (DOMAIN a) \cup (DOMAIN b) |-> IF k \in DOMAIN b THEN b[k] ELSE a[k]]

CharAt(s, i) == SubSeq(s, i, i)

StartsWithAt(s, i, pat) ==
    /\ i + Len(pat) - 1 <= Len(s)
    /\ SubSeq(s, i, i + Len(pat) - 1) = pat

\* The letters' case pairs (the other characters have no case).
UpperOf ==
    [ a |-> "A", b |-> "B", c |-> "C", d |-> "D", e |-> "E", f |-> "F", g |-> "G",
      h |-> "H", i |-> "I", j |-> "J", k |-> "K", l |-> "L", m |-> "M", n |-> "N",
      o |-> "O", p |-> "P", q |-> "Q", r |-> "R", s |-> "S", t |-> "T", u |-> "U",
      v |-> "V", w |-> "W", x |-> "X", y |-> "Y", z |-> "Z" ]
LowerOf ==
    [ A |-> "a", B |-> "b", C |-> "c", D |-> "d", E |-> "e", F |-> "f", G |-> "g",
      H |-> "h", I |-> "i", J |-> "j", K |-> "k", L |-> "l", M |-> "m", N |-> "n",
      O |-> "o", P |-> "p", Q |-> "q", R |-> "r", S |-> "s", T |-> "t", U |-> "u",
      V |-> "v", W |-> "w", X |-> "x", Y |-> "y", Z |-> "z" ]

RECURSIVE MapChars(_, _)
MapChars(s, map) ==
    IF Len(s) = 0 THEN ""
    ELSE (IF CharAt(s, 1) \in DOMAIN map THEN map[CharAt(s, 1)] ELSE CharAt(s, 1))
         \o MapChars(SubSeq(s, 2, Len(s)), map)

toUpperCase(s) == MapChars(s, UpperOf)
toLowerCase(s) == MapChars(s, LowerOf)

\* Array.prototype.join(sep): undefined and null elements join as "".
RECURSIVE join(_, _)
join(content, sep) ==
    IF Len(content) = 0 THEN ""
    ELSE LET h == IF Head(content) \in {Undefined, Null} THEN "" ELSE Head(content)
         IN IF Len(content) = 1 THEN h ELSE h \o sep \o join(Tail(content), sep)

\* String.prototype.indexOf(searchValue, from), 1-based; 0 when not found.
indexOf(str, searchValue, from) ==
    LET found == {j \in from..(Len(str) - Len(searchValue) + 1) :
                      SubSeq(str, j, j + Len(searchValue) - 1) = searchValue}
    IN IF found = {} THEN 0 ELSE CHOOSE j \in found : \A k \in found : j <= k

\* GetSubstitution of String.prototype.replaceAll with a string pattern (no
\* captures): in the replacement text $$ is a dollar, $& the matched text,
\* $` the text before the match and $' the text after it; anything else,
\* $1 and $<name> included, stands for itself.
RECURSIVE GetSubstitution(_, _, _, _, _)
GetSubstitution(matched, str, position, replacement, i) ==
    LET d == indexOf(replacement, "$", i)
        rest(n) == GetSubstitution(matched, str, position, replacement, n)
    IN IF d = 0 THEN SubSeq(replacement, i, Len(replacement))
       ELSE SubSeq(replacement, i, d - 1)
            \o (IF StartsWithAt(replacement, d, "$$") THEN "$" \o rest(d + 2)
                ELSE IF StartsWithAt(replacement, d, "$&") THEN matched \o rest(d + 2)
                ELSE IF StartsWithAt(replacement, d, "$`")
                    THEN SubSeq(str, 1, position - 1) \o rest(d + 2)
                ELSE IF StartsWithAt(replacement, d, "$'")
                    THEN SubSeq(str, position + Len(matched), Len(str)) \o rest(d + 2)
                ELSE "$" \o rest(d + 1))

\* String.prototype.replaceAll(searchValue, replaceValue), both strings and
\* searchValue not empty: the matches are found left to right in the
\* original string and do not overlap; the result is not scanned again.
RECURSIVE ReplaceFrom(_, _, _, _)
ReplaceFrom(str, i, searchValue, replaceValue) ==
    LET position == indexOf(str, searchValue, i)
    IN IF position = 0 THEN SubSeq(str, i, Len(str))
       ELSE SubSeq(str, i, position - 1)
            \o GetSubstitution(searchValue, str, position, replaceValue, 1)
            \o ReplaceFrom(str, position + Len(searchValue), searchValue, replaceValue)

replaceAll(str, searchValue, replaceValue) == ReplaceFrom(str, 1, searchValue, replaceValue)

(***************************************************************************)
(* Templates.ts                                                            *)
(***************************************************************************)
\* TemplateParams: level, message and date, each string | null | undefined.
TemplateParamKeys == {"level", "message", "date"}

Placeholder(key) == "{" \o key \o "}"

\* String(v) of a replaceValue that is not defaulted: absent values print.
StringOf(v) == IF v = Undefined THEN "undefined" ELSE IF v = Null THEN "null" ELSE v

\* resolveTempalate without the `|| ""` defaults.
resolveTempalate_NoDefault(t, p) ==
    replaceAll(
        replaceAll(
            replaceAll(t, "{level}", StringOf(p.level)),
            "{message}", StringOf(p.message)),
        "{date}", StringOf(p.date))

resolveTempalate(t, p) ==
    replaceAll(
        replaceAll(
            replaceAll(t, "{level}", OrElse(p.level, "")),
            "{message}", OrElse(p.message, "")),
        "{date}", OrElse(p.date, ""))

(***************************************************************************)
(* Resolver inputs                                                         *)
(***************************************************************************)
\* What a template is built from: the three placeholders, an unknown
\* placeholder and literal text.
TemplateTokens == {"{level}", "{date}", "{message}", "{foo}", "-"}

\* Param values: absent, empty, plain text, text holding a placeholder, and
\* text holding a dollar pattern.
ParamValues == {Undefined, Null, "", "x", "{date}", "$$", "$&"}

TokenSeqs == UNION {[1..n -> TemplateTokens] : n \in 0..MaxTokens}

RECURSIVE Concat(_)
Concat(ts) == IF Len(ts) = 0 THEN "" ELSE Head(ts) \o Concat(Tail(ts))

InitResolver ==
    /\ tokens \in TokenSeqs
    /\ text = Concat(tokens)
    /\ params \in [TemplateParamKeys -> ParamValues]
    /\ resolved = Undefined
    /\ rpc = "start"

\* One call TemplateResolver.resolveTempalate(text, params).
ResolveTemplate ==
    /\ rpc = "start"
    /\ resolved' = resolveTempalate(text, params)
    /\ rpc' = "done"
    /\ UNCHANGED <<tokens, text, params, loggerVars>>

NextResolver == ResolveTemplate

(***************************************************************************)
(* External collaborators of Logger.ts: chalk and moment                   *)
(***************************************************************************)
ESC == "^["

\* A chalk instance is the styles chained on it so far.
chalk == [background |-> Undefined, text |-> Undefined]
bgHex(styled, color) == [styled EXCEPT !.background = color]
hex(styled, color) == [styled EXCEPT !.text = color]

\* styled(str): the open codes of the chained styles, outermost first, the
\* text, and the close codes in reverse; chalk returns "" for "".
ApplyStyle(styled, str) ==
    IF str = "" THEN ""
    ELSE (IF styled.background = Undefined THEN ""
          ELSE ESC \o "[48;" \o styled.background \o "m")
         \o (IF styled.text = Undefined THEN "" ELSE ESC \o "[38;" \o styled.text \o "m")
         \o str
         \o (IF styled.text = Undefined THEN "" ELSE ESC \o "[39m")
         \o (IF styled.background = Undefined THEN "" ELSE ESC \o "[49m")

Digits == "0123456789"
TwoDigits(n) ==
    CharAt(Digits, ((n \div 10) % 10) + 1) \o CharAt(Digits, (n % 10) + 1)

\* moment(): the instant the clock shows, as the fields the format tokens read.
moment(second) ==
    [ YYYY |-> "2026", MMM |-> "Nov", MM |-> "11", DD |-> "04", D |-> "4",
      HH |-> "22", mm |-> "41", ss |-> TwoDigits(second) ]

\* moment().format(format): the longest token at each place, other
\* characters copied.
RECURSIVE FormatFrom(_, _, _)
FormatFrom(now, format, i) ==
    IF i > Len(format) THEN ""
    ELSE IF StartsWithAt(format, i, "YYYY") THEN now.YYYY \o FormatFrom(now, format, i + 4)
    ELSE IF StartsWithAt(format, i, "MMM") THEN now.MMM \o FormatFrom(now, format, i + 3)
    ELSE IF StartsWithAt(format, i, "MM") THEN now.MM \o FormatFrom(now, format, i + 2)
    ELSE IF StartsWithAt(format, i, "DD") THEN now.DD \o FormatFrom(now, format, i + 2)
    ELSE IF StartsWithAt(format, i, "D") THEN now.D \o FormatFrom(now, format, i + 1)
    ELSE IF StartsWithAt(format, i, "HH") THEN now.HH \o FormatFrom(now, format, i + 2)
    ELSE IF StartsWithAt(format, i, "mm") THEN now.mm \o FormatFrom(now, format, i + 2)
    ELSE IF StartsWithAt(format, i, "ss") THEN now.ss \o FormatFrom(now, format, i + 2)
    ELSE CharAt(format, i) \o FormatFrom(now, format, i + 1)

MomentFormat(now, format) == FormatFrom(now, format, 1)

(***************************************************************************)
(* Logger.ts                                                               *)
(***************************************************************************)
\* enum LogLevelType: the values the entry points pass to universalLog.
LogLevelType == {"INFO", "SUCCESS", "ERROR", "WARN", "DEBUG"}

\* type TLogLevel: the keys of theme, templates and logNames.
TLogLevel == {"info", "success", "error", "warn", "debug"}

\* The regions of a line: the keys of ILoggerTheme.
Regions == {"level", "date", "message"}

\* enum DefaultOptionConstants
TEXT_COLOR == "#e9eef7"
MESSAGE_COLOR == "#83ff75"
DATE_COLOR == "#ff9d5c"
INFO_BACKGROUND == "#72a1f7"
WARN_BACKGROUND == "#ffeb8a"
ERROR_BACKGROUND == "#ff2e3f"
SUCCESS_BACKGROUND == "#68fc68"
DEBUG_BACKGROUND == "#ff8cf2"
BASE_TEMPLATE == "{level} | {date} | {message}"

DEFAULT_DATE_FORMAT == "D MMM YYYY HH:mm:ss"

\* A template function `() => string` is modelled by the string it returns.
defaultSettings ==
    [ global |->
        [ level |-> [text |-> TEXT_COLOR],
          message |-> [text |-> MESSAGE_COLOR],
          date |-> [text |-> DATE_COLOR] ],
      theme |->
        [ info |-> [level |-> [background |-> INFO_BACKGROUND]],
          warn |-> [level |-> [background |-> WARN_BACKGROUND]],
          error |-> [level |-> [background |-> ERROR_BACKGROUND]],
          success |-> [level |-> [background |-> SUCCESS_BACKGROUND]],
          debug |-> [level |-> [background |-> DEBUG_BACKGROUND]] ],
      formatting |-> [dateFormat |-> DEFAULT_DATE_FORMAT, baseColor |-> TEXT_COLOR],
      templates |->
        [ info |-> BASE_TEMPLATE,
          warn |-> BASE_TEMPLATE,
          debug |-> BASE_TEMPLATE,
          success |-> BASE_TEMPLATE,
          error |-> BASE_TEMPLATE ] ]

\* constructor(options?): this.options = { ...this.defaultSettings(), ...options }
constructor(options) == Spread(defaultSettings, options)

\* applyTheme with the spread the other way round: { ...local, ...global }.
applyTheme_GlobalWins(local, global) ==
    LET merged == Spread(local, global)
        text_ == Get(merged, "text")
        background == Get(merged, "background")
        withBackground ==
            IF Truthy(background) THEN bgHex(chalk, toUpperCase(background)) ELSE chalk
    IN IF Truthy(text_) THEN hex(withBackground, toUpperCase(text_)) ELSE withBackground

\* applyTheme(local = {}, global = {}): the chalk instance for one region.
applyTheme(local, global) ==
    LET merged == Spread(global, local)
        text_ == Get(merged, "text")
        background == Get(merged, "background")
        withBackground ==
            IF Truthy(background) THEN bgHex(chalk, toUpperCase(background)) ELSE chalk
    IN IF Truthy(text_) THEN hex(withBackground, toUpperCase(text_)) ELSE withBackground

\* getDate(): the current date in the configured format.
getDate(options, now) ==
    MomentFormat(now, OrElse(Get(GetObject(options, "formatting"), "dateFormat"),
                             DEFAULT_DATE_FORMAT))

\* theme?.[level.toLowerCase()] || {}
themeSetOf(theme, level) == GetObject(theme, toLowerCase(level))

\* ` ${this.options.logNames?.[level] || level} `
logLevelText(options, level) ==
    " " \o OrElse(Get(GetObject(options, "logNames"), level), level) \o " "

\* templateStrOf looking the template up under the level as passed in,
\* without toLowerCase().
templateStrOf_NoLowerCase(templates, level) ==
    LET templateFunc == Get(templates, level)
    IN IF templateFunc # Undefined THEN templateFunc ELSE BASE_TEMPLATE

\* templateFunc ? templateFunc() : BASE_TEMPLATE, templateFunc being
\* templates?.[level.toLowerCase()]
templateStrOf(templates, level) ==
    LET templateFunc == Get(templates, toLowerCase(level))
    IN IF templateFunc # Undefined THEN templateFunc ELSE BASE_TEMPLATE

\* The locals of one universalLog(level, ...content) call on a Logger whose
\* options are `options`, moment() returning `now`; `line` is the argument
\* of console.log.
universalLogLocals(options, level, content, now) ==
    LET theme == GetObject(options, "theme")
        global == GetObject(options, "global")
        templates == GetObject(options, "templates")
        formatting == GetObject(options, "formatting")
        themeSet == themeSetOf(theme, level)
        levelStyle == applyTheme(GetObject(themeSet, "level"), GetObject(global, "level"))
        levelText == logLevelText(options, level)
        dateStyle == applyTheme(GetObject(themeSet, "date"), GetObject(global, "date"))
        dateText == getDate(options, now)
        messageStyle ==
            applyTheme(GetObject(themeSet, "message"), GetObject(global, "message"))
        messageText == join(content, " ")
        templateStr == templateStrOf(templates, level)
        baseColor == OrElse(Get(formatting, "baseColor"), TEXT_COLOR)
        coloredTemplate == ApplyStyle(hex(chalk, toUpperCase(baseColor)), templateStr)
    IN [ level |-> level,
         levelText |-> levelText,
         dateText |-> dateText,
         messageText |-> messageText,
         style |-> [level |-> levelStyle, date |-> dateStyle, message |-> messageStyle],
         templateStr |-> templateStr,
         baseColor |-> baseColor,
         line |->
            resolveTempalate(coloredTemplate,
                [ level |-> ApplyStyle(levelStyle, levelText),
                  date |-> ApplyStyle(dateStyle, dateText),
                  message |-> ApplyStyle(messageStyle, messageText) ]) ]

\* new Logger(options), the instance bound to the name `this`.
Construct(this, options) ==
    /\ this \notin DOMAIN loggers
    /\ loggers' = [l \in (DOMAIN loggers) \cup {this} |->
                      IF l = this THEN constructor(options) ELSE loggers[l]]
    /\ given' = [l \in (DOMAIN given) \cup {this} |->
                      IF l = this THEN options ELSE given[l]]
    /\ UNCHANGED <<clock, sink, entries, locals, resolverVars>>

\* universalLog returning early, before console.log, when there is no content.
universalLog_SkipsEmpty(this, level, content) ==
    /\ locals' = universalLogLocals(loggers[this], level, content, moment(clock))
    /\ sink' = IF Len(content) = 0 THEN sink ELSE Append(sink, locals'.line)
    /\ clock' = clock + 1
    /\ UNCHANGED <<loggers, given, resolverVars>>

\* universalLog storing the level's template back into this.options.
universalLog_StoresTemplate(this, level, content) ==
    /\ locals' = universalLogLocals(loggers[this], level, content, moment(clock))
    /\ sink' = Append(sink, locals'.line)
    /\ clock' = clock + 1
    /\ loggers' = [loggers EXCEPT ![this] =
            Spread(@, [templates |-> [info |-> locals'.templateStr]])]
    /\ UNCHANGED <<given, resolverVars>>

\* universalLog(level, ...content): one console.log of the resolved line.
\* The clock moves on by a second with every call, so that successive calls
\* read different instants.
universalLog(this, level, content) ==
    /\ locals' = universalLogLocals(loggers[this], level, content, moment(clock))
    /\ sink' = Append(sink, locals'.line)
    /\ clock' = clock + 1
    /\ UNCHANGED <<loggers, given, resolverVars>>

\* A caller's call this.<entry>(...content), as the caller sees it.
Call(this, entry, content) ==
    /\ this \in DOMAIN loggers
    /\ Len(entries) < MaxCalls
    /\ entries' = Append(entries,
            [logger |-> this, entry |-> entry, content |-> content, second |-> clock])

info(this, content) ==
    /\ Call(this, "info", content)
    /\ universalLog(this, "INFO", content)

\* warn passing LogLevelType.INFO.
warn_AsInfo(this, content) ==
    /\ Call(this, "warn", content)
    /\ universalLog(this, "INFO", content)

warn(this, content) ==
    /\ Call(this, "warn", content)
    /\ universalLog(this, "WARN", content)

success(this, content) ==
    /\ Call(this, "success", content)
    /\ universalLog(this, "SUCCESS", content)

debug(this, content) ==
    /\ Call(this, "debug", content)
    /\ universalLog(this, "DEBUG", content)

error(this, content) ==
    /\ Call(this, "error", content)
    /\ universalLog(this, "ERROR", content)

(***************************************************************************)
(* Logger inputs                                                           *)
(***************************************************************************)
Instances == {"a", "b"}

\* ...content of a call: nothing, and two parts.
Contents == {<<>>, <<"a", "b">>}

\* The options objects given to the constructor; EmptyObject is `new Logger()`.
UserOptions ==
    { EmptyObject,
      [ logNames |-> [INFO |-> "NOTICE"],
        templates |-> [warn |-> "{date} {level} with {message}"] ],
      [ theme |-> [info |-> [level |-> [background |-> "#111111"]]],
        global |-> [level |-> [text |-> "#ffffff", background |-> "#000000"]],
        formatting |-> [dateFormat |-> "HH:mm:ss"] ] }

InitResolverIdle ==
    /\ tokens = <<>>
    /\ text = ""
    /\ params = [k \in TemplateParamKeys |-> Undefined]
    /\ resolved = Undefined
    /\ rpc = "done"

InitNoLoggers ==
    /\ loggers = <<>>
    /\ given = <<>>
    /\ clock = 0
    /\ sink = <<>>
    /\ entries = <<>>
    /\ locals = <<>>

Init == InitNoLoggers /\ InitResolverIdle

Next ==
    \E this \in Instances :
        \/ \E options \in UserOptions : Construct(this, options)
        \/ \E content \in Contents :
            \/ info(this, content)
            \/ warn(this, content)
            \/ success(this, content)
            \/ debug(this, content)
            \/ error(this, content)

Spec == Init /\ [][Next]_vars

\* One Logger and a wide choice of configurations.
ConfigInstance == "c"
ConfigContent == <<"boom">>

\* A region's Color Spec in a per-level theme; null clears a background.
PerLevelColors ==
    { EmptyObject,
      [text |-> "#0a0a0a"],
      [background |-> "#111111"],
      [text |-> "#0a0a0a", background |-> "#111111"],
      [background |-> Null] }

\* A region's Color Spec in the global theme.
GlobalColors ==
    { EmptyObject,
      [text |-> "#ffffff"],
      [background |-> "#000000"],
      [text |-> "#ffffff", background |-> "#000000"] }

OneEntry(key, value) == [k \in {key} |-> value]

ThemeOptions ==
    { [ theme |-> OneEntry(l, OneEntry(r, pl)), global |-> OneEntry(r, gl) ] :
        l \in TLogLevel, r \in Regions, pl \in PerLevelColors, gl \in GlobalColors }

\* Every level with a theme and a template of its own.
PerLevelOptions ==
    [ theme |->
        [ info |-> [level |-> [background |-> "#00ff00"]],
          warn |-> [level |-> [background |-> "#ffff00"]],
          error |-> [level |-> [text |-> "#ff0000", background |-> "#000000"]],
          success |-> [level |-> [background |-> "#00cc00"]],
          debug |-> [level |-> [background |-> "#800080"]] ],
      templates |->
        [ info |-> "i {message}",
          warn |-> "w {message}",
          error |-> "e {message}",
          success |-> "s {message}",
          debug |-> "d {message}" ] ]

ConfigOptions ==
    ThemeOptions \cup
    { EmptyObject,
      PerLevelOptions,
      [logNames |-> [info |-> "NOTICE"]],
      [logNames |-> [INFO |-> "NOTICE"]],
      [theme |-> [info |-> [level |-> [background |-> "#111111"]]]],
      [global |-> [date |-> [text |-> "#ff0000"]]],
      [formatting |-> [dateFormat |-> "YYYY-MM-DD HH:mm"]],
      [templates |-> [warn |-> "{date} {level} with {message}"]] }

NextConfig ==
    \/ \E options \in ConfigOptions : Construct(ConfigInstance, options)
    \/ info(ConfigInstance, ConfigContent)
    \/ warn(ConfigInstance, ConfigContent)
    \/ success(ConfigInstance, ConfigContent)
    \/ debug(ConfigInstance, ConfigContent)
    \/ error(ConfigInstance, ConfigContent)

SpecConfig == Init /\ [][NextConfig]_vars

\* The resolver alone: no Logger is constructed.
InitResolverOnly == InitResolver /\ InitNoLoggers

SpecResolver == InitResolverOnly /\ [][NextResolver]_vars

(***************************************************************************)
(* Vocabulary of the properties                                            *)
(***************************************************************************)
Called == Len(entries) > 0
LastEntry == entries[Len(entries)]
LastKey == LastEntry.entry
LastGiven == given[LastEntry.logger]
LastOptions == loggers[LastEntry.logger]

\* Each level's canonical uppercase display form.
CanonicalName ==
    [info |-> "INFO", warn |-> "WARN", error |-> "ERROR", success |-> "SUCCESS",
     debug |-> "DEBUG"]

Contains(s, sub) == indexOf(s, sub, 1) # 0

\* A line without its color escape codes.
RECURSIVE UnstyledFrom(_, _)
UnstyledFrom(s, i) ==
    LET e == indexOf(s, ESC, i)
    IN IF e = 0 THEN SubSeq(s, i, Len(s))
       ELSE SubSeq(s, i, e - 1) \o UnstyledFrom(s, indexOf(s, "m", e) + 1)

Unstyled(s) == UnstyledFrom(s, 1)

\* The field-by-field merge of user options over the defaults, at every
\* nesting level of ILoggerOptions.
MergeRegions(a, b) ==
    [k \in (DOMAIN a) \cup (DOMAIN b) |->
        IF k \in DOMAIN a /\ k \in DOMAIN b THEN Spread(a[k], b[k])
        ELSE IF k \in DOMAIN b THEN b[k] ELSE a[k]]

MergeLevels(a, b) ==
    [k \in (DOMAIN a) \cup (DOMAIN b) |->
        IF k \in DOMAIN a /\ k \in DOMAIN b THEN MergeRegions(a[k], b[k])
        ELSE IF k \in DOMAIN b THEN b[k] ELSE a[k]]

FieldByFieldMerge(defaults, options) ==
    [k \in (DOMAIN defaults) \cup (DOMAIN options) |->
        IF k \notin DOMAIN options THEN defaults[k]
        ELSE IF k \notin DOMAIN defaults THEN options[k]
        ELSE IF k = "theme" THEN MergeLevels(defaults[k], options[k])
        ELSE IF k = "global" THEN MergeRegions(defaults[k], options[k])
        ELSE Spread(defaults[k], options[k])]

\* The single simultaneous substitution of a template given by its pieces:
\* each placeholder piece becomes its param value (absent: empty), any
\* other piece stays.
SubstituteToken(token, p) ==
    IF token = "{level}" THEN OrElse(p.level, "")
    ELSE IF token = "{message}" THEN OrElse(p.message, "")
    ELSE IF token = "{date}" THEN OrElse(p.date, "")
    ELSE token

RECURSIVE Substituted(_, _)
Substituted(ts, p) ==
    IF Len(ts) = 0 THEN "" ELSE SubstituteToken(Head(ts), p) \o Substituted(Tail(ts), p)

Absent(v) == v \in {Undefined, Null}
IsPlaceholder(token) == token \in {Placeholder(k) : k \in TemplateParamKeys}
WithoutToken(ts, token) == SelectSeq(ts, LAMBDA x : x # token)
LiteralTokens(ts) == SelectSeq(ts, LAMBDA x : ~IsPlaceholder(x))

(***************************************************************************)
(* C1                                                                      *)
(***************************************************************************)
\* C1: with a logNames entry under the lowercase key of the level called,
\* the level region's unstyled text is " <override> "; without one it is
\* " <CANONICAL> " (logNames holding lowercase level keys only).
C1_LevelDisplayOverride ==
    Called =>
        LET names == GetObject(LastGiven, "logNames")
        IN DOMAIN names \subseteq TLogLevel =>
            locals.levelText =
                " " \o (IF LastKey \in DOMAIN names THEN names[LastKey]
                        ELSE CanonicalName[LastKey]) \o " "

(***************************************************************************)
(* C2                                                                      *)
(***************************************************************************)
\* C2: a log call styles and lays out its line as the field-by-field merge
\* of the user's options over the defaults prescribes, so every default the
\* user did not supply is still in effect.
C2_DefaultsSurvivePartialOptions ==
    Called =>
        LET merged ==
                universalLogLocals(FieldByFieldMerge(defaultSettings, LastGiven),
                    CanonicalName[LastKey], LastEntry.content, moment(LastEntry.second))
        IN /\ locals.style = merged.style
           /\ locals.templateStr = merged.templateStr
           /\ locals.baseColor = merged.baseColor
           /\ locals.dateText = merged.dateText

(***************************************************************************)
(* C3                                                                      *)
(***************************************************************************)
IsColor(v) == v \notin {Undefined, Null, ""}

ColorsOnly(spec) == \A f \in DOMAIN spec : IsColor(spec[f])

PerLevelSpec(region) == GetObject(GetObject(GetObject(LastOptions, "theme"), LastKey), region)
GlobalSpec(region) == GetObject(GetObject(LastOptions, "global"), region)

EffectiveField(perLevel, global, f) ==
    IF f \in DOMAIN perLevel THEN toUpperCase(perLevel[f])
    ELSE IF f \in DOMAIN global THEN toUpperCase(global[f])
    ELSE Undefined

HasDollar(v) == ~Absent(v) /\ Contains(v, "$")
HasBrace(v) == ~Absent(v) /\ (Contains(v, "{") \/ Contains(v, "}"))

\* C4: the result equals one simultaneous substitution of the placeholders
\* of the original template, also when a param value holds a placeholder
\* (param values without dollar patterns).
C4_SingleSimultaneousSubstitution ==
    (rpc = "done" /\ \A k \in TemplateParamKeys : ~HasDollar(params[k])) =>
        resolved = Substituted(tokens, params)

(***************************************************************************)
(* C5                                                                      *)
(***************************************************************************)
\* C5: with param values that hold no braces, every placeholder piece of
\* the template is replaced by its param value and every other piece,
\* unknown placeholders included, is unchanged and in place.
C5_EveryOccurrenceReplaced ==
    (rpc = "done" /\ \A k \in TemplateParamKeys : ~HasBrace(params[k])) =>
        resolved = Substituted(tokens, params)

(***************************************************************************)
(* C6                                                                      *)
(***************************************************************************)
\* C6: resolve always returns a string; a placeholder whose param is null
\* or undefined is replaced by the empty string, that is, the result is
\* that of the template without that placeholder's pieces, and with all
\* three params absent only the other pieces remain.
C6_AbsentParamIsEmpty ==
    rpc = "done" =>
        /\ resolved \in STRING
        /\ \A k \in TemplateParamKeys :
              Absent(params[k]) =>
                  resolved =
                      resolveTempalate(Concat(WithoutToken(tokens, Placeholder(k))), params)
        /\ (\A k \in TemplateParamKeys : Absent(params[k])) =>
              resolved = Concat(LiteralTokens(tokens))

\* "{level}-{date}" resolved with level null and date undefined.
C6_Witness ==
    /\ rpc = "done"
    /\ tokens = <<"{level}", "-", "{date}">>
    /\ params.level = Null
    /\ params.date = Undefined
    /\ resolved = "-"

(***************************************************************************)
(* C7                                                                      *)
(***************************************************************************)
\* C7: a call to a level for which the user's options give no template
\* uses "{level} | {date} | {message}", so its line shows the level, date
\* and message regions; a call to a level with a template uses that
\* template's text.
C7_DefaultTemplateFallback ==
    Called =>
        LET templates == GetObject(LastGiven, "templates")
        IN IF LastKey \in DOMAIN templates
           THEN locals.templateStr = templates[LastKey]
           ELSE /\ locals.templateStr = "{level} | {date} | {message}"
                /\ Unstyled(locals.line) =
                      locals.levelText \o " | " \o locals.dateText
                      \o " | " \o locals.messageText

\* info("boom") on a Logger whose templates option holds warn only.
C7_Witness ==
    /\ Called
    /\ LastKey = "info"
    /\ LastGiven = [templates |-> [warn |-> "{date} {level} with {message}"]]
    /\ locals.templateStr = BASE_TEMPLATE
    /\ Unstyled(locals.line) = " INFO  | 4 Nov 2026 22:41:00 | boom"

(***************************************************************************)
(* C8                                                                      *)
(***************************************************************************)
LineOf(e) ==
    universalLogLocals(loggers[e.logger], CanonicalName[e.entry], e.content,
        moment(e.second)).line

\* C8: every entry-point call appends exactly one line to the sink, the
\* line of that call, and nothing else writes to the sink; so after n
\* calls the sink holds n lines, the i-th that of the i-th call.
C8_OneLinePerCall ==
    [][ IF entries' # entries
        THEN /\ Len(entries') = Len(entries) + 1
             /\ sink' = Append(sink, LineOf(entries'[Len(entries')]))
        ELSE sink' = sink ]_vars

\* Two calls on two instances, the first with an empty content list.
C8_Witness ==
    /\ Len(sink) = 2
    /\ Len(entries) = 2
    /\ entries[1].logger # entries[2].logger
    /\ entries[1].content = <<>>
    /\ entries[2].content = <<"a", "b">>
    /\ sink[1] # sink[2]

(***************************************************************************)
(* C9                                                                      *)
(***************************************************************************)
\* C9: whatever calls were made, every Logger's stored options are the ones
\* its constructor computed from its argument.
C9_OptionsFixedAtConstruction ==
    /\ DOMAIN loggers = DOMAIN given
    /\ \A this \in DOMAIN loggers : loggers[this] = constructor(given[this])

\* Two calls made on a Logger with options of its own, another one beside it.
C9_Witness ==
    /\ Len(entries) = 2
    /\ entries[1].logger = "a"
    /\ entries[2].logger = "a"
    /\ DOMAIN loggers = {"a", "b"}
    /\ "logNames" \in DOMAIN loggers["a"]
    /\ "logNames" \notin DOMAIN loggers["b"]

(***************************************************************************)
(* C10                                                                     *)
(***************************************************************************)
\* C10: the entry point of level L runs universalLog as L: the level passed
\* is L's canonical name, which is the level region's text when no logNames
\* are given, and the per-level theme and the template used are those
\* stored under the lowercase key L.
C10_EntryPointLevelIdentity ==
    Called =>
        LET theme == GetObject(LastOptions, "theme")
            global == GetObject(LastOptions, "global")
            templates == GetObject(LastOptions, "templates")
        IN /\ locals.level = CanonicalName[LastKey]
           /\ "logNames" \notin DOMAIN LastGiven =>
                  locals.levelText = " " \o CanonicalName[LastKey] \o " "
           /\ \A r \in Regions :
                  locals.style[r] =
                      applyTheme(GetObject(GetObject(theme, LastKey), r),
                                 GetObject(global, r))
           /\ LastKey \in DOMAIN templates => locals.templateStr = templates[LastKey]

\* debug("boom") on the Logger with a theme and a template per level.
C10_Witness ==
    /\ Called
    /\ LastKey = "debug"
    /\ LastGiven = PerLevelOptions
    /\ locals.style["level"].background = "#800080"
    /\ locals.templateStr = "d {message}"
    /\ locals.levelText = " DEBUG "
====
